---- MODULE Spec2Model ----
(***************************************************************************)
(* Model of the match-backend compatibility-matching engine: the Prisma    *)
(* tables (users, likes, matches, messages), the request handlers of the   *)
(* auth, match, message and user routes, taken one database call (await)   *)
(* at a time, the trait extractor, and the pure similarity and ranking     *)
(* functions of the matching service.                                      *)
(***************************************************************************)
EXTENDS Integers, Sequences, FiniteSets, Bags, TLC

VARIABLES
    users,          \* table users: id -> [communityId, bio, traitVector]
    nextUserId,     \* autoincrement of users.id (ids 1..nextUserId-1 were issued)
    likes,          \* table likes: bag of <<fromUserId, toUserId>>, a copy per row
    matches,        \* table matches: set of [id, userAId, userBId]
    nextMatchId,    \* autoincrement of matches.id
    messages,       \* table messages: set of [id, senderId, receiverId, matchId]
    nextMessageId,  \* autoincrement of messages.id
    tokens,         \* issued JWTs: user id -> communityId signed into the token
    req,            \* per client: the request in progress or its response
    started         \* number of requests received so far

vars == <<users, nextUserId, likes, matches, nextMatchId, messages,
          nextMessageId, tokens, req, started>>

db == <<users, nextUserId, likes, matches, nextMatchId, messages, nextMessageId>>

----------------------------------------------------------------------------
(* Bounds of the model *)

\* requests received in one behaviour
MaxStarted == 4
\* largest limit a ranking request asks for (0 is the rejected one)
MaxLimit == 2

\* upper bound of the limit query parameter of GET /potential
LimitCap == 20

\* clients that may have a request in flight at the same time
Clients == {"c1", "c2"}

\* weights are held in units of 1/Scale (1.0 is Scale)
Scale == 2

\* significant binary digits kept by the arithmetic of the model
Precision == 2

NULL == [null |-> TRUE]

\* A request slot: the handler's position (pc), the authenticated user
\* (request.user.id), the target user of the body or the path, the handler's
\* local variables, and once pc = "done" the reply (status and body).
NewReq(kind, pc, user, to, limit) ==
    [kind |-> kind, pc |-> pc, user |-> user, to |-> to, limit |-> limit,
     aLikesB |-> FALSE, match |-> NULL, traitVector |-> NULL, communityId |-> 0,
     status |-> 0, error |-> "", isMatch |-> FALSE, matchDeleted |-> FALSE,
     result |-> <<>>,
     bio |-> NULL, email |-> NULL, response |-> NULL,
     vectorA |-> <<>>, vectorB |-> <<>>,
     traits |-> NULL, userATraits |-> NULL, userBTraits |-> NULL]

Idle == NewReq("idle", "done", 0, 0, 0)

----------------------------------------------------------------------------
(* Trait profiles, vectors and similarity (utils/vector) *)

\* defaultTraits of extractTraitsFromBio
defaultTraits == [personalityTraits |-> <<>>, interests |-> <<>>, values |-> <<>>]

\* a VectorMap keeps its keys in insertion order: a sequence of <<key, value>>
EmptyVector == <<>>

KeysOf(vector) == [i \in 1 .. Len(vector) |-> vector[i][1]]

HasKey(vector, key) == \E i \in 1 .. Len(vector) : vector[i][1] = key

\* vector[key] = value on a VectorMap
\* mutant: an assignment to a key the vector holds adds a second entry
SetKeyAppending(vector, key, value) == Append(vector, <<key, value>>)

SetKey(vector, key, value) ==
    IF HasKey(vector, key)
    THEN [i \in 1 .. Len(vector) |->
            IF vector[i][1] = key THEN <<key, value>> ELSE vector[i]]
    ELSE Append(vector, <<key, value>>)

RECURSIVE AddPersonality(_, _)
AddPersonality(vector, entries) ==
    IF entries = <<>> THEN vector
    ELSE AddPersonality(
           SetKey(vector, "personality_" \o Head(entries)[1], Head(entries)[2]),
           Tail(entries))

\* mutant: the keywords are not namespaced
RECURSIVE AddKeywordsUnprefixed(_, _, _)
AddKeywordsUnprefixed(vector, prefix, words) ==
    IF words = <<>> THEN vector
    ELSE AddKeywordsUnprefixed(SetKey(vector, Head(words), Scale), prefix, Tail(words))

RECURSIVE AddKeywords(_, _, _)
AddKeywords(vector, prefix, words) ==
    IF words = <<>> THEN vector
    ELSE AddKeywords(SetKey(vector, prefix \o Head(words), Scale), prefix, Tail(words))

traitsToVector(traits) ==
    AddKeywords(
      AddKeywords(
        AddPersonality(EmptyVector, traits.personalityTraits),
        "interest_", traits.interests),
      "value_", traits.values)

\* vector[key] || 0
ValueOr0(vector, key) ==
    IF HasKey(vector, key)
    THEN vector[CHOOSE i \in 1 .. Len(vector) : vector[i][1] = key][2]
    ELSE 0

\* number of binary digits of n
RECURSIVE BitLen(_)
BitLen(n) == IF n = 0 THEN 0 ELSE 1 + BitLen(n \div 2)

RECURSIVE Pow2(_)
Pow2(n) == IF n = 0 THEN 1 ELSE 2 * Pow2(n - 1)

\* The result of an arithmetic operation on numbers (IEEE 754 doubles) is
\* rounded to the nearest value of Precision significant binary digits, ties
\* to the even one.
Fl(x) ==
    IF BitLen(x) <= Precision THEN x
    ELSE LET ulp == Pow2(BitLen(x) - Precision)
             q == x \div ulp
             rest == x % ulp
         IN IF 2 * rest > ulp \/ (2 * rest = ulp /\ q % 2 = 1)
            THEN (q + 1) * ulp
            ELSE q * ulp

\* new Set([...Object.keys(vectorA), ...Object.keys(vectorB)]), in iteration order
UnionKeys(vectorA, vectorB) ==
    KeysOf(vectorA) \o SelectSeq(KeysOf(vectorB), LAMBDA k : ~HasKey(vectorA, k))

\* for (const key of keys) { dotProduct += ...; normA += ...; normB += ... }
RECURSIVE SumOver(_, _, _, _)
SumOver(keys, vectorA, vectorB, sums) ==
    IF keys = <<>> THEN sums
    ELSE LET valueA == ValueOr0(vectorA, Head(keys))
             valueB == ValueOr0(vectorB, Head(keys))
         IN SumOver(Tail(keys), vectorA, vectorB,
                    [dot |-> Fl(sums.dot + Fl(valueA * valueB)),
                     normA |-> Fl(sums.normA + Fl(valueA * valueA)),
                     normB |-> Fl(sums.normB + Fl(valueB * valueB))])

\* Weights w stand for w / Scale, the sums for x / Scale^2. A square root is
\* held in units of 1 / (Scale * 2^RootBits), a score in units of 1 / 2^ScoreBits.
RootBits == Precision + 1

ScoreBits == 2 * Precision + 4

\* the score 1.0
One == Pow2(ScoreBits)

\* floor of the square root of n
RECURSIVE ISqrt(_)
ISqrt(n) ==
    IF n < 2 THEN n
    ELSE LET s == 2 * ISqrt(n \div 4)
         IN IF (s + 1) * (s + 1) <= n THEN s + 1 ELSE s

\* Math.sqrt(x): the square root of x >= 1, rounded to Precision significant
\* binary digits (ties to even)
Sqrt(x) ==
    LET y == x * Pow2(2 * RootBits)
        floor == ISqrt(y)
        ulp == Pow2(BitLen(floor) - Precision)
        q == floor \div ulp
        mid == q * ulp + ulp \div 2
    IN IF y > mid * mid \/ (y = mid * mid /\ q % 2 = 1)
       THEN (q + 1) * ulp
       ELSE q * ulp

\* num / den rounded to Precision significant binary digits (ties to even);
\* the quotients of the model have more digits than that before rounding
Div(num, den) ==
    LET floor == num \div den
        ulp == Pow2(BitLen(floor) - Precision)
        q == floor \div ulp
        rest == num - q * ulp * den
    IN IF BitLen(floor) <= Precision THEN floor
       ELSE IF 2 * rest > ulp * den \/ (2 * rest = ulp * den /\ q % 2 = 1)
            THEN (q + 1) * ulp
            ELSE q * ulp

\* mutant: a zero norm gives the highest score
ZeroNormScoreOne == One

\* return 0, of if (normA === 0 || normB === 0)
ZeroNormScore == 0

\* if (normA === 0 || normB === 0) return 0;
\* return dotProduct / (Math.sqrt(normA) * Math.sqrt(normB))
cosineSimilarity(vectorA, vectorB) ==
    LET sums == SumOver(UnionKeys(vectorA, vectorB), vectorA, vectorB,
                        [dot |-> 0, normA |-> 0, normB |-> 0])
    IN IF sums.normA = 0 \/ sums.normB = 0
       THEN ZeroNormScore
       ELSE Div(sums.dot * Pow2(2 * RootBits) * One,
                Fl(Sqrt(sums.normA) * Sqrt(sums.normB)))

calculateUserSimilarity(userATraits, userBTraits) ==
    cosineSimilarity(traitsToVector(userATraits), traitsToVector(userBTraits))

Sign(n) == IF n > 0 THEN 1 ELSE IF n < 0 THEN -1 ELSE 0

\* sign of the difference of two scores
ScoreDiff(s, t) == Sign(s - t)

----------------------------------------------------------------------------
(* The tables and their constraints (Prisma schema) *)

UserIds == 1 .. (nextUserId - 1)

Exists(id) == id \in DOMAIN users

\* the (fromUserId, toUserId) of the rows of table likes
LikePairs == BagToSet(likes)

\* prisma.like.findUnique({ where: { fromUserId_toUserId } })
LikeExists(fromUserId, toUserId) == BagIn(<<fromUserId, toUserId>>, likes)

\* mutant: table likes has no unique index
LikeUniqueNotEnforced(fromUserId, toUserId) == FALSE

\* @@unique([fromUserId, toUserId]) of model Like
LikeUniqueViolated(fromUserId, toUserId) == LikeExists(fromUserId, toUserId)

\* mutant: the lookup matches the given orientation only
MatchRowsForGivenOrder(a, b) ==
    {m \in matches : m.userAId = a /\ m.userBId = b}

\* prisma.match.findFirst({ where: { OR: [{userAId, userBId}, {userAId: userBId, userBId: userAId}] } })
\* yields one of these rows (no orderBy), or null when there is none
MatchRowsFor(a, b) ==
    {m \in matches : \/ (m.userAId = a /\ m.userBId = b)
                     \/ (m.userAId = b /\ m.userBId = a)}

\* @@unique([userAId, userBId]) of model Match
MatchUniqueViolated(userAId, userBId) ==
    \E m \in matches : m.userAId = userAId /\ m.userBId = userBId

\* mutant: deleting a Match leaves its Messages
MessagesKept(ms, gone) == ms

\* onDelete: Cascade from Match to Message
MessagesWithoutMatches(ms, gone) == {x \in ms : x.matchId \notin {m.id : m \in gone}}

\* the reply of a handler
Reply(r, status) == [req EXCEPT ![r].pc = "done", ![r].status = status]

Busy(r) == req[r].pc # "done"

----------------------------------------------------------------------------
(* createMatchIfMutualLike(userAId, userBId) with checkMutualLike inlined,  *)
(* called by POST /like with (fromUserId, toUserId): one action per await.  *)

\* what the caller does with the returned match (or null)
Returned(r, match) ==
    IF req[r].kind = "like"
    THEN [req EXCEPT ![r].pc = "done", ![r].status = 201,
                     ![r].isMatch = (match # NULL), ![r].match = match]
    ELSE [req EXCEPT ![r].pc = "done", ![r].match = match]

\* const aLikesB = await prisma.like.findUnique(...)
CheckALikesB(r) ==
    /\ req[r].pc = "checkALikesB"
    /\ req' = [req EXCEPT ![r].pc = "checkBLikesA",
                          ![r].aLikesB = LikeExists(req[r].user, req[r].to)]
    /\ UNCHANGED <<db, tokens, started>>

\* mutant: the second lookup is negated
MutualLikeResultNegated(aLikesB, bLikesA) == aLikesB /\ ~bLikesA

\* const bLikesA = await prisma.like.findUnique(...); return !!aLikesB && !!bLikesA
\* and, in createMatchIfMutualLike, if (!hasMutualLike) return null
MutualLikeResult(aLikesB, bLikesA) == aLikesB /\ bLikesA

CheckBLikesA(r) ==
    /\ req[r].pc = "checkBLikesA"
    /\ LET hasMutualLike ==
             MutualLikeResult(req[r].aLikesB, LikeExists(req[r].to, req[r].user))
       IN req' = IF hasMutualLike
                 THEN [req EXCEPT ![r].pc = "findExistingMatch"]
                 ELSE Returned(r, NULL)
    /\ UNCHANGED <<db, tokens, started>>

\* const existingMatch = await prisma.match.findFirst(...); if (existingMatch) return it
FindExistingMatch(r) ==
    /\ req[r].pc = "findExistingMatch"
    /\ LET rows == MatchRowsFor(req[r].user, req[r].to)
       IN IF rows = {}
          THEN req' = [req EXCEPT ![r].pc = "createMatch"]
          ELSE \E existingMatch \in rows : req' = Returned(r, existingMatch)
    /\ UNCHANGED <<db, tokens, started>>

\* return await prisma.match.create({ data: { userAId, userBId } })
\* A failed insert (unique or foreign key violation) throws, which POST /like
\* answers with 500; the sequence value is consumed by PostgreSQL either way.
CreateMatch(r) ==
    /\ req[r].pc = "createMatch"
    /\ nextMatchId' = nextMatchId + 1
    /\ LET userAId == req[r].user
           userBId == req[r].to
           row == [id |-> nextMatchId, userAId |-> userAId, userBId |-> userBId]
       IN IF MatchUniqueViolated(userAId, userBId) \/ ~Exists(userAId) \/ ~Exists(userBId)
          THEN /\ matches' = matches
               /\ req' = Reply(r, 500)
          ELSE /\ matches' = matches \cup {row}
               /\ req' = Returned(r, row)
    /\ UNCHANGED <<users, nextUserId, likes, messages, nextMessageId, tokens, started>>

----------------------------------------------------------------------------
(* POST /like (routes/match) *)

\* mutant: a like of oneself is not rejected
LikeStartAcceptingSelf(r, fromUserId, toUserId) ==
    /\ ~Busy(r)
    /\ started < MaxStarted
    /\ started' = started + 1
    /\ req' = [req EXCEPT ![r] = NewReq("like", "findToUser", fromUserId, toUserId, 0)]
    /\ UNCHANGED <<db, tokens>>

\* the request arrives; if (fromUserId === toUserId) reply 400
LikeStart(r, fromUserId, toUserId) ==
    /\ ~Busy(r)
    /\ started < MaxStarted
    /\ started' = started + 1
    /\ req' = IF fromUserId = toUserId
              THEN [req EXCEPT ![r] = [NewReq("like", "done", fromUserId, toUserId, 0)
                                         EXCEPT !.status = 400]]
              ELSE [req EXCEPT ![r] = NewReq("like", "findToUser", fromUserId, toUserId, 0)]
    /\ UNCHANGED <<db, tokens>>

\* mutant: the community of the liked user is not compared
LikeFindToUserAnyCommunity(r) ==
    /\ req[r].kind = "like" /\ req[r].pc = "findToUser"
    /\ req' = IF ~Exists(req[r].to) THEN Reply(r, 404)
              ELSE [req EXCEPT ![r].pc = "findExistingLike"]
    /\ UNCHANGED <<db, tokens, started>>

\* const toUser = await prisma.user.findUnique(...): 404 if none, 403 if the
\* community differs from the one in the token
LikeFindToUser(r) ==
    /\ req[r].kind = "like" /\ req[r].pc = "findToUser"
    /\ req' = IF ~Exists(req[r].to) THEN Reply(r, 404)
              ELSE IF users[req[r].to].communityId # tokens[req[r].user] THEN Reply(r, 403)
              ELSE [req EXCEPT ![r].pc = "findExistingLike"]
    /\ UNCHANGED <<db, tokens, started>>

\* const existingLike = await prisma.like.findUnique(...): 400 if there is one
LikeFindExisting(r) ==
    /\ req[r].kind = "like" /\ req[r].pc = "findExistingLike"
    /\ req' = IF LikeExists(req[r].user, req[r].to) THEN Reply(r, 400)
              ELSE [req EXCEPT ![r].pc = "createLike"]
    /\ UNCHANGED <<db, tokens, started>>

\* await prisma.like.create(...): @@unique([fromUserId, toUserId]) and the two
\* foreign keys make the insert throw (500)
LikeCreate(r) ==
    /\ req[r].kind = "like" /\ req[r].pc = "createLike"
    /\ IF \/ LikeUniqueViolated(req[r].user, req[r].to)
          \/ ~Exists(req[r].user) \/ ~Exists(req[r].to)
       THEN /\ likes' = likes
            /\ req' = Reply(r, 500)
       ELSE /\ likes' = likes (+) SetToBag({<<req[r].user, req[r].to>>})
            /\ req' = [req EXCEPT ![r].pc = "checkALikesB"]
    /\ UNCHANGED <<users, nextUserId, matches, nextMatchId, messages, nextMessageId,
                   tokens, started>>

\* createMatchIfMutualLike(userAId, userBId) called on its own
ResolveStart(r, userAId, userBId) ==
    /\ ~Busy(r)
    /\ started < MaxStarted
    /\ started' = started + 1
    /\ req' = [req EXCEPT ![r] = NewReq("resolve", "checkALikesB", userAId, userBId, 0)]
    /\ UNCHANGED <<db, tokens>>

----------------------------------------------------------------------------
(* DELETE /like/:userId (routes/match) *)

UnlikeStart(r, fromUserId, toUserId) ==
    /\ ~Busy(r)
    /\ started < MaxStarted
    /\ started' = started + 1
    /\ req' = [req EXCEPT ![r] = NewReq("unlike", "deleteLike", fromUserId, toUserId, 0)]
    /\ UNCHANGED <<db, tokens>>

\* mutant: a missing Like is not an error
UnlikeDeleteLikeIgnoringMissing(r) ==
    /\ req[r].kind = "unlike" /\ req[r].pc = "deleteLike"
    /\ likes' = IF LikeExists(req[r].user, req[r].to)
                THEN likes (-) SetToBag({<<req[r].user, req[r].to>>})
                ELSE likes
    /\ req' = [req EXCEPT ![r].pc = "findMatch"]
    /\ UNCHANGED <<users, nextUserId, matches, nextMatchId, messages, nextMessageId,
                   tokens, started>>

\* await prisma.like.delete(...), which throws when there is no such row: 404
UnlikeDeleteLike(r) ==
    /\ req[r].kind = "unlike" /\ req[r].pc = "deleteLike"
    /\ IF LikeExists(req[r].user, req[r].to)
       THEN /\ likes' = likes (-) SetToBag({<<req[r].user, req[r].to>>})
            /\ req' = [req EXCEPT ![r].pc = "findMatch"]
       ELSE /\ likes' = likes
            /\ req' = Reply(r, 404)
    /\ UNCHANGED <<users, nextUserId, matches, nextMatchId, messages, nextMessageId,
                   tokens, started>>

\* const match = await prisma.match.findFirst(...); without one the reply is
\* 200 with matchDeleted false
UnlikeFindMatch(r) ==
    /\ req[r].kind = "unlike" /\ req[r].pc = "findMatch"
    /\ LET rows == MatchRowsFor(req[r].user, req[r].to)
       IN IF rows = {}
          THEN req' = Reply(r, 200)
          ELSE \E match \in rows :
                 req' = [req EXCEPT ![r].pc = "deleteMatch", ![r].match = match]
    /\ UNCHANGED <<db, tokens, started>>

\* await prisma.match.delete({ where: { id: match.id } }), which throws (500)
\* when the row is gone; then reply 200 with matchDeleted true
UnlikeDeleteMatch(r) ==
    /\ req[r].kind = "unlike" /\ req[r].pc = "deleteMatch"
    /\ IF req[r].match \in matches
       THEN /\ matches' = matches \ {req[r].match}
            /\ messages' = MessagesWithoutMatches(messages, {req[r].match})
            /\ req' = [req EXCEPT ![r].pc = "done", ![r].status = 200,
                                  ![r].matchDeleted = TRUE]
       ELSE /\ UNCHANGED <<matches, messages>>
            /\ req' = Reply(r, 500)
    /\ UNCHANGED <<users, nextUserId, likes, nextMatchId, nextMessageId, tokens, started>>

----------------------------------------------------------------------------
(* POST / of the message routes (routes/message) *)

\* the request arrives; if (senderId === receiverId) reply 400
MessageStart(r, senderId, receiverId) ==
    /\ ~Busy(r)
    /\ started < MaxStarted
    /\ started' = started + 1
    /\ req' = IF senderId = receiverId
              THEN [req EXCEPT ![r] = [NewReq("message", "done", senderId, receiverId, 0)
                                         EXCEPT !.status = 400]]
              ELSE [req EXCEPT ![r] = NewReq("message", "findMatch", senderId, receiverId, 0)]
    /\ UNCHANGED <<db, tokens>>

\* const match = await prisma.match.findFirst(...): 403 without one
MessageFindMatch(r) ==
    /\ req[r].kind = "message" /\ req[r].pc = "findMatch"
    /\ LET rows == MatchRowsFor(req[r].user, req[r].to)
       IN IF rows = {}
          THEN req' = Reply(r, 403)
          ELSE \E match \in rows :
                 req' = [req EXCEPT ![r].pc = "createMessage", ![r].match = match]
    /\ UNCHANGED <<db, tokens, started>>

\* await prisma.message.create(...) connecting sender, receiver and match by
\* id: a missing row makes it throw (500)
MessageCreate(r) ==
    /\ req[r].kind = "message" /\ req[r].pc = "createMessage"
    /\ nextMessageId' = nextMessageId + 1
    /\ IF Exists(req[r].user) /\ Exists(req[r].to)
          /\ (\E m \in matches : m.id = req[r].match.id)
       THEN /\ messages' = messages \cup
                   {[id |-> nextMessageId, senderId |-> req[r].user,
                     receiverId |-> req[r].to, matchId |-> req[r].match.id]}
            /\ req' = Reply(r, 201)
       ELSE /\ messages' = messages
            /\ req' = Reply(r, 500)
    /\ UNCHANGED <<users, nextUserId, likes, matches, nextMatchId, tokens, started>>

----------------------------------------------------------------------------
(* DELETE / of the user routes *)

DeleteUserStart(r, id) ==
    /\ ~Busy(r)
    /\ started < MaxStarted
    /\ started' = started + 1
    /\ req' = [req EXCEPT ![r] = NewReq("deleteUser", "deleteUser", id, 0, 0)]
    /\ UNCHANGED <<db, tokens>>

\* mutant: the Likes the user received stay
DeleteUserDeleteKeepingLikes(r) ==
    /\ req[r].kind = "deleteUser" /\ req[r].pc = "deleteUser"
    /\ LET id == req[r].user
           gone == {m \in matches : m.userAId = id \/ m.userBId = id}
       IN IF Exists(id)
          THEN /\ users' = [u \in (DOMAIN users) \ {id} |-> users[u]]
               /\ likes' = [l \in {k \in LikePairs : k[1] # id} |-> likes[l]]
               /\ matches' = matches \ gone
               /\ messages' = {x \in MessagesWithoutMatches(messages, gone) :
                                 x.senderId # id /\ x.receiverId # id}
               /\ req' = Reply(r, 204)
          ELSE /\ UNCHANGED <<users, likes, matches, messages>>
               /\ req' = Reply(r, 500)
    /\ UNCHANGED <<nextUserId, nextMatchId, nextMessageId, tokens, started>>

\* await prisma.user.delete({ where: { id } }) with the schema's onDelete:
\* Cascade on likes, matches and messages; it throws (500) when the row is gone
DeleteUserDelete(r) ==
    /\ req[r].kind = "deleteUser" /\ req[r].pc = "deleteUser"
    /\ LET id == req[r].user
           gone == {m \in matches : m.userAId = id \/ m.userBId = id}
       IN IF Exists(id)
          THEN /\ users' = [u \in (DOMAIN users) \ {id} |-> users[u]]
               /\ likes' = [l \in {k \in LikePairs : k[1] # id /\ k[2] # id} |->
                              likes[l]]
               /\ matches' = matches \ gone
               /\ messages' = {x \in MessagesWithoutMatches(messages, gone) :
                                 x.senderId # id /\ x.receiverId # id}
               /\ req' = Reply(r, 204)
          ELSE /\ UNCHANGED <<users, likes, matches, messages>>
               /\ req' = Reply(r, 500)
    /\ UNCHANGED <<nextUserId, nextMatchId, nextMessageId, tokens, started>>

----------------------------------------------------------------------------
(* findCompatibleUsers (services/matching) and GET /potential (routes/match) *)

Min(a, b) == IF a < b THEN a ELSE b

\* the orders in which a query without orderBy may return the rows of ids
Orders(ids) ==
    {f \in [1 .. Cardinality(ids) -> ids] :
       \A i, j \in 1 .. Cardinality(ids) : i # j => f[i] # f[j]}

\* mutant: the community filter is missing
CommunityUserIdsAnyCommunity(userTable, communityId, userId) ==
    {id \in DOMAIN userTable : id # userId}

\* where: { communityId: user.communityId, id: { not: userId } }
CommunityUserIds(userTable, communityId, userId) ==
    {id \in DOMAIN userTable : userTable[id].communityId = communityId /\ id # userId}

\* mutant: the likes the candidate gave to the requester
LikesGivenTo(likeTable, id, userId) ==
    {l \in likeTable : l[1] = id /\ l[2] = userId}

\* mutant: the likes between the two users in either direction
LikesBetween(likeTable, id, userId) ==
    {l \in likeTable : \/ (l[2] = id /\ l[1] = userId)
                        \/ (l[1] = id /\ l[2] = userId)}

\* likesReceived: { where: { fromUserId: userId } } of the row of id
LikesReceivedFrom(likeTable, id, userId) ==
    {l \in likeTable : l[2] = id /\ l[1] = userId}

\* communityUsers.filter((user) => user.likesReceived.length === 0 && user.traitVector)
IsPotentialMatch(userTable, likeTable, id, userId) ==
    /\ Cardinality(LikesReceivedFrom(likeTable, id, userId)) = 0
    /\ userTable[id].traitVector # NULL

PotentialMatches(userTable, likeTable, order, userId) ==
    SelectSeq(order, LAMBDA id : IsPotentialMatch(userTable, likeTable, id, userId))

\* potentialMatches.map(...)
MatchesWithScores(userTable, potentialMatches, userTraits) ==
    [i \in 1 .. Len(potentialMatches) |->
       [id |-> potentialMatches[i],
        bio |-> userTable[potentialMatches[i]].bio,
        similarityScore |->
          calculateUserSimilarity(userTraits, userTable[potentialMatches[i]].traitVector)]]

\* mutant: the comparator sorts by ascending score
ComparatorAscending(a, b) == ScoreDiff(a.similarityScore, b.similarityScore)

\* the comparator (a, b) => b.similarityScore - a.similarityScore, as a sign
Comparator(a, b) == ScoreDiff(b.similarityScore, a.similarityScore)

\* Array.prototype.sort is stable: x goes behind every element that the
\* comparator does not put after it
RECURSIVE InsertSorted(_, _)
InsertSorted(sorted, x) ==
    IF sorted = <<>> THEN <<x>>
    ELSE IF Comparator(Head(sorted), x) <= 0
         THEN <<Head(sorted)>> \o InsertSorted(Tail(sorted), x)
         ELSE <<x>> \o sorted

RECURSIVE SortByScore(_, _)
SortByScore(sorted, rest) ==
    IF rest = <<>> THEN sorted
    ELSE SortByScore(InsertSorted(sorted, Head(rest)), Tail(rest))

\* .slice(0, limit)
Slice(s, limit) == SubSeq(s, 1, Min(limit, Len(s)))

\* the part of findCompatibleUsers after the second query returned the rows
\* of the community in the given order, on the given users and likes tables
RankedMatches(userTable, likeTable, userId, userTraits, order, limit) ==
    Slice(SortByScore(<<>>,
            MatchesWithScores(userTable,
              PotentialMatches(userTable, likeTable, order, userId), userTraits)),
          limit)

\* the request arrives; limit outside 1..20 is answered 400
RankStart(r, id, limit) ==
    /\ ~Busy(r)
    /\ started < MaxStarted
    /\ started' = started + 1
    /\ req' = IF limit < 1 \/ limit > LimitCap
              THEN [req EXCEPT ![r] = [NewReq("rank", "done", id, 0, limit)
                                         EXCEPT !.status = 400]]
              ELSE [req EXCEPT ![r] = NewReq("rank", "findUser", id, 0, limit)]
    /\ UNCHANGED <<db, tokens>>

\* mutant: a requester without profile gets an empty list
RankFindUserSwallowing(r) ==
    /\ req[r].kind = "rank" /\ req[r].pc = "findUser"
    /\ req' = IF ~Exists(req[r].user)
              THEN [Reply(r, 500) EXCEPT ![r].error = "User not found"]
              ELSE IF users[req[r].user].traitVector = NULL
              THEN Reply(r, 200)
              ELSE [req EXCEPT ![r].pc = "findCommunityUsers",
                               ![r].traitVector = users[req[r].user].traitVector,
                               ![r].communityId = users[req[r].user].communityId]
    /\ UNCHANGED <<db, tokens, started>>

\* const user = await prisma.user.findUnique(...); the two throws are caught
\* by GET /potential and answered 500 with the error's message
RankFindUser(r) ==
    /\ req[r].kind = "rank" /\ req[r].pc = "findUser"
    /\ req' = IF ~Exists(req[r].user)
              THEN [Reply(r, 500) EXCEPT ![r].error = "User not found"]
              ELSE IF users[req[r].user].traitVector = NULL
              THEN [Reply(r, 500) EXCEPT ![r].error = "User does not have trait vector data"]
              ELSE [req EXCEPT ![r].pc = "findCommunityUsers",
                               ![r].traitVector = users[req[r].user].traitVector,
                               ![r].communityId = users[req[r].user].communityId]
    /\ UNCHANGED <<db, tokens, started>>

\* mutant: an empty ranking is answered as an error
RankFindCommunityUsersFailingOnEmpty(r) ==
    /\ req[r].kind = "rank" /\ req[r].pc = "findCommunityUsers"
    /\ \E order \in Orders(CommunityUserIds(users, req[r].communityId, req[r].user)) :
         LET result == RankedMatches(users, LikePairs, req[r].user,
                                     req[r].traitVector, order, req[r].limit)
         IN req' = IF result = <<>>
                   THEN [Reply(r, 500) EXCEPT ![r].error = "No matches"]
                   ELSE [req EXCEPT ![r].pc = "done", ![r].status = 200,
                                    ![r].result = result]
    /\ UNCHANGED <<db, tokens, started>>

\* mutant: the requester's profile is recomputed and stored while ranking
RankFindCommunityUsersRecomputing(r) ==
    /\ req[r].kind = "rank" /\ req[r].pc = "findCommunityUsers"
    /\ \E order \in Orders(CommunityUserIds(users, req[r].communityId, req[r].user)) :
         req' = [req EXCEPT ![r].pc = "done", ![r].status = 200,
                            ![r].result = RankedMatches(users, LikePairs, req[r].user,
                                            req[r].traitVector, order, req[r].limit)]
    /\ users' = [users EXCEPT ![req[r].user].traitVector = defaultTraits]
    /\ UNCHANGED <<nextUserId, likes, matches, nextMatchId, messages, nextMessageId,
                   tokens, started>>

\* const communityUsers = await prisma.user.findMany(...), then filter, map,
\* sort and slice; reply.send({ matches: potentialMatches })
RankFindCommunityUsers(r) ==
    /\ req[r].kind = "rank" /\ req[r].pc = "findCommunityUsers"
    /\ \E order \in Orders(CommunityUserIds(users, req[r].communityId, req[r].user)) :
         req' = [req EXCEPT ![r].pc = "done", ![r].status = 200,
                            ![r].result = RankedMatches(users, LikePairs, req[r].user,
                                            req[r].traitVector, order, req[r].limit)]
    /\ UNCHANGED <<db, tokens, started>>

----------------------------------------------------------------------------
(* Initial states: a database holding registered users and nothing else *)

\* number of registered users of the reciprocity specifications
NumUsers == 3

Bio(text) == [text |-> text]

\* stored trait profiles (the extractor's results for the users' biographies)
ProfileA == [personalityTraits |-> << <<"openness", 2>> >>,
             interests |-> <<"hiking">>, values |-> <<>>]
ProfileB == [personalityTraits |-> << <<"openness", 1>> >>,
             interests |-> <<"hiking">>, values |-> <<"honesty">>]
ProfileC == [personalityTraits |-> << <<"openness", 2>> >>,
             interests |-> <<"hiking", "hiking">>, values |-> <<>>]

UserRow(communityId, traitVector) ==
    [communityId |-> communityId,
     bio |-> IF traitVector = NULL THEN NULL ELSE Bio("bio"),
     traitVector |-> traitVector]

\* users 1 .. NumUsers - 1 share community 1, the last one is in community 2
SeedUsers ==
    [id \in 1 .. NumUsers |->
       UserRow(IF id < NumUsers THEN 1 ELSE 2,
               IF id % 2 = 1 THEN ProfileA ELSE ProfileB)]

InitWith(seed) ==
    /\ users = seed
    /\ nextUserId = Cardinality(DOMAIN seed) + 1
    /\ tokens = [id \in DOMAIN seed |-> seed[id].communityId]
    /\ likes = EmptyBag
    /\ matches = {}
    /\ nextMatchId = 1
    /\ messages = {}
    /\ nextMessageId = 1
    /\ req = [r \in Clients |-> Idle]
    /\ started = 0

Init == InitWith(SeedUsers)

\* number of registered users of the ranking specification
NumRankUsers == 4

\* the profiles a seeded user of the ranking specification may hold: stored
\* profiles, the extractor's default profile, or none (registered without bio)
SeedTraitOptions(id) ==
    CASE id % 3 = 1 -> {ProfileA}
      [] id % 3 = 2 -> {ProfileB, NULL}
      [] OTHER -> {ProfileC, defaultTraits}

RankSeeds ==
    {seed \in [1 .. NumRankUsers ->
                 {UserRow(c, t) : c \in {1, 2},
                                  t \in {ProfileA, ProfileB, ProfileC, defaultTraits, NULL}}] :
       \A id \in 1 .. NumRankUsers :
          /\ seed[id].communityId = (IF id < NumRankUsers THEN 1 ELSE 2)
          /\ seed[id].traitVector \in SeedTraitOptions(id)}

InitRank == \E seed \in RankSeeds : InitWith(seed)

----------------------------------------------------------------------------
(* extractTraitsFromBio (services/openai) *)

\* longest content of an upstream response, in pieces
MaxContent == 4

\* The content of a response is a sequence of pieces: an opening or closing
\* brace, the member "traits": {...} holding a profile, the members
\* "personalityTraits", "interests", "values" the prompt asks for, or other text.
Pieces == {"{", "}", "traits", "fields", "text"}

Content(pieces) == [pieces |-> pieces]

Contents == UNION {{Content(c) : c \in [1 .. n -> Pieces]} : n \in 0 .. MaxContent}

\* what openai.chat.completions.create does: it throws, or it returns a
\* response without content, or one with content
Responses ==
    {[kind |-> "throws", content |-> NULL], [kind |-> "ok", content |-> NULL]}
      \cup {[kind |-> "ok", content |-> c] : c \in Contents}

\* bio.trim() on the biographies of the model
Trim(text) == IF text = " " THEN "" ELSE text

\* the profile the extractor reads out of a biography
TraitsIn(text) == IF text = "b1" THEN ProfileA ELSE ProfileB

Return(value) == [raised |-> FALSE, value |-> value]

Throw == [raised |-> TRUE, value |-> NULL]

\* content.match(/\{[\s\S]*\}/): from the first opening brace to the last
\* closing brace behind it, or null
JsonMatch(content) ==
    LET pieces == content.pieces
        opens == {i \in 1 .. Len(pieces) : pieces[i] = "{"}
        first == CHOOSE i \in opens : \A k \in opens : i <= k
        closes == {j \in 1 .. Len(pieces) : pieces[j] = "}" /\ j > first}
        last == CHOOSE j \in closes : \A k \in closes : j >= k
    IN IF opens = {} THEN NULL
       ELSE IF closes = {} THEN NULL
       ELSE Content(SubSeq(pieces, first, last))

\* JSON.parse(jsonMatch[0]): an object is a pair of braces around members;
\* anything else is a SyntaxError. The parsed object is given by its members.
ParseJson(text, bio) ==
    LET inner == SubSeq(text.pieces, 2, Len(text.pieces) - 1)
        members == {inner[i] : i \in 1 .. Len(inner)}
    IN IF members \subseteq {"traits", "fields"} /\ Cardinality(members) = Len(inner)
       THEN Return([traits |-> IF "traits" \in members THEN TraitsIn(bio.text) ELSE NULL])
       ELSE Throw

\* try { ... return parsedResult.traits || defaultTraits ... return defaultTraits }
ParseContent(content, bio) ==
    LET jsonMatch == JsonMatch(content)
        parsedResult == ParseJson(jsonMatch, bio)
    IN IF jsonMatch = NULL THEN Return(defaultTraits)
       ELSE IF parsedResult.raised THEN Throw
       ELSE IF parsedResult.value.traits # NULL THEN Return(parsedResult.value.traits)
       ELSE Return(defaultTraits)

\* catch (parseError) { return defaultTraits }
CatchParseError(result) == IF result.raised THEN Return(defaultTraits) ELSE result

\* mutant: an error of the upstream call is thrown on
CatchApiErrorRethrown(result) == result

\* catch (error) { return { personalityTraits: {}, interests: [], values: [] } }
CatchApiError(result) == IF result.raised THEN Return(defaultTraits) ELSE result

\* The result of extractTraitsFromBio(bio) when the upstream call behaves as
\* response says: the returned profile, or raised.
extractTraitsFromBio(bio, response) ==
    CatchApiError(
      IF bio = NULL \/ bio.text = "" \/ Trim(bio.text) = "" THEN Return(defaultTraits)
      ELSE IF response.kind = "throws" THEN Throw
      ELSE IF response.content = NULL \/ response.content = Content(<<>>)
           THEN Return(defaultTraits)
      ELSE CatchParseError(ParseContent(response.content, bio)))

\* the biographies of the model: none, empty, blank, and two texts
Bios == {NULL, Bio(""), Bio(" "), Bio("b1"), Bio("b2")}

\* extractTraitsFromBio called on a biography
ExtractCall(r) ==
    /\ req[r].kind = "extract" /\ req[r].pc = "call"
    /\ req' = [req EXCEPT ![r].pc = "done",
                          ![r].result = extractTraitsFromBio(req[r].bio, req[r].response)]
    /\ UNCHANGED <<db, tokens, started>>

----------------------------------------------------------------------------
(* POST /register (routes/auth) and PUT / (routes/user) *)

Email(address) == [address |-> address]

\* the e-mail addresses of the requests
Emails == {Email("e1"), Email("e2")}

\* the communities stored; no route deletes one
Communities == {1, 2}

\* if (bio), if (email): null, undefined and "" are falsy
Truthy(field) == field # NULL /\ field # Bio("") /\ field # Email("")

\* @unique of User.email, for the row of id (0: a row to be inserted)
EmailUniqueViolated(email, id) ==
    \E u \in DOMAIN users : u # id /\ users[u].email = email

\* the request arrives
RegisterStart(r, email, bio, communityId) ==
    /\ ~Busy(r)
    /\ started < MaxStarted
    /\ started' = started + 1
    /\ req' = [req EXCEPT ![r] = [NewReq("register", "findEmail", 0, 0, 0)
                                    EXCEPT !.email = email, !.bio = bio,
                                           !.communityId = communityId]]
    /\ UNCHANGED <<db, tokens>>

\* const existingUser = await prisma.user.findUnique({ where: { email } })
RegisterFindEmail(r) ==
    /\ req[r].kind = "register" /\ req[r].pc = "findEmail"
    /\ req' = IF EmailUniqueViolated(req[r].email, 0) THEN Reply(r, 400)
              ELSE [req EXCEPT ![r].pc = "findCommunity"]
    /\ UNCHANGED <<db, tokens, started>>

\* const community = await prisma.community.findUnique(...): 404 if none; then
\* await hashPassword(password), and traitVector = null unless there is a bio
RegisterFindCommunity(r) ==
    /\ req[r].kind = "register" /\ req[r].pc = "findCommunity"
    /\ req' = IF req[r].communityId \notin Communities THEN Reply(r, 404)
              ELSE IF Truthy(req[r].bio) THEN [req EXCEPT ![r].pc = "extract"]
              ELSE [req EXCEPT ![r].pc = "createUser", ![r].traitVector = NULL]
    /\ UNCHANGED <<db, tokens, started>>

\* what extractTraitsFromBio(bio) may return or raise, over all the upstream
\* responses
Extractions ==
    [bio \in Bios |-> {extractTraitsFromBio(bio, response) : response \in Responses}]

ExtractionsOf(bio) == Extractions[bio]

\* traitVector = await extractTraitsFromBio(bio), in POST /register and in
\* PUT /; an error raised by it would be answered 500
AwaitExtract(r, next) ==
    /\ req[r].pc = "extract"
    /\ \E result \in ExtractionsOf(req[r].bio) :
         req' = IF result.raised THEN Reply(r, 500)
                ELSE [req EXCEPT ![r].pc = next, ![r].traitVector = result.value]
    /\ UNCHANGED <<db, tokens, started>>

RegisterExtract(r) == req[r].kind = "register" /\ AwaitExtract(r, "createUser")

\* const user = await prisma.user.create(...), which throws (500) on a
\* duplicate e-mail; then the token is signed with the row's id and community
RegisterCreate(r) ==
    /\ req[r].kind = "register" /\ req[r].pc = "createUser"
    /\ nextUserId' = nextUserId + 1
    /\ IF EmailUniqueViolated(req[r].email, 0)
       THEN /\ UNCHANGED <<users, tokens>>
            /\ req' = Reply(r, 500)
       ELSE /\ users' = [u \in (DOMAIN users) \cup {nextUserId} |->
                           IF u = nextUserId
                           THEN [communityId |-> req[r].communityId,
                                 bio |-> req[r].bio,
                                 traitVector |-> req[r].traitVector,
                                 email |-> req[r].email]
                           ELSE users[u]]
            /\ tokens' = [u \in (DOMAIN tokens) \cup {nextUserId} |->
                            IF u = nextUserId THEN req[r].communityId ELSE tokens[u]]
            /\ req' = [req EXCEPT ![r].pc = "done", ![r].status = 201,
                                  ![r].user = nextUserId]
    /\ UNCHANGED <<likes, matches, nextMatchId, messages, nextMessageId, started>>

\* the request arrives with a body holding bio and email, either or none;
\* without a bio no profile is extracted, without any field the reply is 400
UpdateStart(r, id, bio, email) ==
    /\ ~Busy(r)
    /\ started < MaxStarted
    /\ started' = started + 1
    /\ LET new == [NewReq("update", "extract", id, 0, 0)
                     EXCEPT !.bio = bio, !.email = email]
       IN req' = IF Truthy(bio) THEN [req EXCEPT ![r] = new]
                 ELSE IF Truthy(email)
                 THEN [req EXCEPT ![r] = [new EXCEPT !.pc = "updateUser"]]
                 ELSE [req EXCEPT ![r] = [new EXCEPT !.pc = "done", !.status = 400]]
    /\ UNCHANGED <<db, tokens>>

UpdateExtract(r) == req[r].kind = "update" /\ AwaitExtract(r, "updateUser")

\* mutant: the update writes the bio and leaves the stored profile
UpdatedRowKeepingProfile(row, bio, traitVector, email) ==
    [row EXCEPT !.bio = IF Truthy(bio) THEN bio ELSE @,
                !.email = IF Truthy(email) THEN email ELSE @]

\* the row the update writes: updateData holds bio and traitVector together
UpdatedRow(row, bio, traitVector, email) ==
    [row EXCEPT !.bio = IF Truthy(bio) THEN bio ELSE @,
                !.traitVector = IF Truthy(bio) THEN traitVector ELSE @,
                !.email = IF Truthy(email) THEN email ELSE @]

\* await prisma.user.update({ where: { id }, data: updateData }), which throws
\* (500) when the row is gone or the e-mail is another user's
UpdateUser(r) ==
    /\ req[r].kind = "update" /\ req[r].pc = "updateUser"
    /\ LET id == req[r].user
       IN IF \/ ~Exists(id)
             \/ (Truthy(req[r].email) /\ EmailUniqueViolated(req[r].email, id))
          THEN /\ users' = users
               /\ req' = Reply(r, 500)
          ELSE /\ users' = [users EXCEPT ![id] =
                              UpdatedRow(@, req[r].bio, req[r].traitVector, req[r].email)]
               /\ req' = Reply(r, 200)
    /\ UNCHANGED <<nextUserId, likes, matches, nextMatchId, messages, nextMessageId,
                   tokens, started>>

\* an empty database
InitEmpty ==
    /\ users = <<>> /\ nextUserId = 1 /\ tokens = <<>>
    /\ likes = EmptyBag
    /\ matches = {} /\ nextMatchId = 1
    /\ messages = {} /\ nextMessageId = 1
    /\ req = [r \in Clients |-> Idle]
    /\ started = 0

----------------------------------------------------------------------------
(* Next-state relations *)

\* an await of a handler in flight returns
LikeStep(r) ==
    \/ LikeFindToUser(r)
    \/ LikeFindExisting(r)
    \/ LikeCreate(r)
    \/ CheckALikesB(r)
    \/ CheckBLikesA(r)
    \/ FindExistingMatch(r)
    \/ CreateMatch(r)

UnlikeStep(r) ==
    \/ UnlikeDeleteLike(r)
    \/ UnlikeFindMatch(r)
    \/ UnlikeDeleteMatch(r)

MessageStep(r) ==
    \/ MessageFindMatch(r)
    \/ MessageCreate(r)

RankStep(r) ==
    \/ RankFindUser(r)
    \/ RankFindCommunityUsers(r)

AllDone == \A r \in Clients : ~Busy(r)

\* like, unlike, message and delete-user requests arrive from clients holding
\* a token, at any time
Next ==
    \/ \E r \in Clients, user \in DOMAIN tokens, to \in UserIds : LikeStart(r, user, to)
    \/ \E r \in Clients, user \in DOMAIN tokens, to \in UserIds : UnlikeStart(r, user, to)
    \/ \E r \in Clients, user \in DOMAIN tokens, to \in UserIds : MessageStart(r, user, to)
    \/ \E r \in Clients, user \in DOMAIN tokens : DeleteUserStart(r, user)
    \/ \E r \in Clients : LikeStep(r)
    \/ \E r \in Clients : UnlikeStep(r)
    \/ \E r \in Clients : MessageStep(r)
    \/ \E r \in Clients : DeleteUserDelete(r)

Spec == Init /\ [][Next]_vars

\* the database when the first request arrives: the registered users, and
\* possibly a Like given earlier
InitCascade ==
    /\ users = SeedUsers
    /\ nextUserId = NumUsers + 1
    /\ tokens = [id \in DOMAIN SeedUsers |-> SeedUsers[id].communityId]
    /\ likes \in {EmptyBag, SetToBag({<<2, 1>>})}
    /\ matches = {}
    /\ nextMatchId = 1
    /\ messages = {}
    /\ nextMessageId = 1
    /\ req = [r \in Clients |-> Idle]
    /\ started = 0

\* the requests of Next and rankings, at any time
NextCascade ==
    \/ \E r \in Clients, user \in DOMAIN tokens, to \in UserIds : LikeStart(r, user, to)
    \/ \E r \in Clients, user \in DOMAIN tokens, to \in UserIds : UnlikeStart(r, user, to)
    \/ \E r \in Clients, user \in DOMAIN tokens, to \in UserIds : MessageStart(r, user, to)
    \/ \E r \in Clients, user \in DOMAIN tokens : DeleteUserStart(r, user)
    \/ \E r \in Clients, user \in DOMAIN tokens, limit \in 0 .. MaxLimit :
          RankStart(r, user, limit)
    \/ \E r \in Clients : LikeStep(r)
    \/ \E r \in Clients : UnlikeStep(r)
    \/ \E r \in Clients : MessageStep(r)
    \/ \E r \in Clients : RankStep(r)
    \/ \E r \in Clients : DeleteUserDelete(r)

SpecCascade == InitCascade /\ [][NextCascade]_vars

\* the client of the specifications in which requests come one after the other
OneClient == CHOOSE r \in Clients : TRUE

RegisterStep(r) ==
    \/ RegisterFindEmail(r)
    \/ RegisterFindCommunity(r)
    \/ RegisterExtract(r)
    \/ RegisterCreate(r)

UpdateStep(r) ==
    \/ UpdateExtract(r)
    \/ UpdateUser(r)

\* From an empty database, users register one after the other and update
\* their profiles concurrently.
NextProfile ==
    \/ \E email \in Emails, bio \in Bios, communityId \in {1, 3} :
          AllDone /\ RegisterStart(OneClient, email, bio, communityId)
    \/ \E r \in Clients, id \in DOMAIN tokens, bio \in Bios, email \in Emails \cup {NULL} :
          UpdateStart(r, id, bio, email)
    \/ RegisterStep(OneClient)
    \/ \E r \in Clients : UpdateStep(r)

SpecProfile == InitEmpty /\ [][NextProfile]_vars

\* a call of extractTraitsFromBio on any biography, with any upstream response
InitExtract ==
    /\ users = <<>> /\ nextUserId = 1 /\ tokens = <<>>
    /\ likes = EmptyBag
    /\ matches = {} /\ nextMatchId = 1
    /\ messages = {} /\ nextMessageId = 1
    /\ started = 0
    /\ \E bio \in Bios, response \in Responses :
         req = [r \in Clients |->
                  IF r = OneClient
                  THEN [NewReq("extract", "call", 0, 0, 0)
                          EXCEPT !.bio = bio, !.response = response]
                  ELSE Idle]

NextExtract == ExtractCall(OneClient)

SpecExtract == InitExtract /\ [][NextExtract]_vars

\* cosineSimilarity called on two vectors
SimilarityCall(r) ==
    /\ req[r].kind = "similarity" /\ req[r].pc = "call"
    /\ req' = [req EXCEPT ![r].pc = "done",
                          ![r].result = cosineSimilarity(req[r].vectorA, req[r].vectorB)]
    /\ UNCHANGED <<db, tokens, started>>

\* the feature keys of the vectors handed to cosineSimilarity
FeatureKeys == {"personality_openness", "interest_hiking", "value_honesty"}

\* the VectorMaps over FeatureKeys with weights 0 .. Scale, in every key order
Vectors ==
    UNION {{v \in [1 .. n -> FeatureKeys \X (0 .. Scale)] :
              \A i, j \in 1 .. n : i # j => v[i][1] # v[j][1]} :
           n \in 0 .. Cardinality(FeatureKeys)}

\* a call of cosineSimilarity on any two vectors
InitVector ==
    /\ users = <<>> /\ nextUserId = 1 /\ tokens = <<>>
    /\ likes = EmptyBag
    /\ matches = {} /\ nextMatchId = 1
    /\ messages = {} /\ nextMessageId = 1
    /\ started = 0
    /\ \E vectorA \in Vectors, vectorB \in Vectors :
         req = [r \in Clients |->
                  IF r = OneClient
                  THEN [NewReq("similarity", "call", 0, 0, 0)
                          EXCEPT !.vectorA = vectorA, !.vectorB = vectorB]
                  ELSE Idle]

NextVector == SimilarityCall(OneClient)

SpecVector == InitVector /\ [][NextVector]_vars

\* longest list of interests or values of a profile
MaxWords == 2

\* the words of the profiles: trait names, interests and values
Words == {"hiking", "honesty"}

WordLists == UNION {[1 .. n -> Words] : n \in 0 .. MaxWords}

\* the UserTraits of the model: at most one personality trait, of intensity
\* 0 .. Scale, and lists of interests and values, with repetitions
TraitProfiles ==
    {[personalityTraits |-> p, interests |-> i, values |-> v] :
       p \in {<<>>} \cup {<< <<name, intensity>> >> :
                              name \in Words, intensity \in 0 .. Scale},
       i \in WordLists, v \in WordLists}

\* calculateUserSimilarity called on two profiles
UserSimilarityCall(r) ==
    /\ req[r].kind = "userSimilarity" /\ req[r].pc = "call"
    /\ req' = [req EXCEPT ![r].pc = "done",
                          ![r].result = calculateUserSimilarity(req[r].userATraits,
                                                                req[r].userBTraits)]
    /\ UNCHANGED <<db, tokens, started>>

\* a call of calculateUserSimilarity on any two profiles
InitSimilarity ==
    /\ users = <<>> /\ nextUserId = 1 /\ tokens = <<>>
    /\ likes = EmptyBag
    /\ matches = {} /\ nextMatchId = 1
    /\ messages = {} /\ nextMessageId = 1
    /\ started = 0
    /\ \E userATraits \in TraitProfiles, userBTraits \in TraitProfiles :
         req = [r \in Clients |->
                  IF r = OneClient
                  THEN [NewReq("userSimilarity", "call", 0, 0, 0)
                          EXCEPT !.userATraits = userATraits,
                                 !.userBTraits = userBTraits]
                  ELSE Idle]

NextSimilarity == UserSimilarityCall(OneClient)

SpecSimilarity == InitSimilarity /\ [][NextSimilarity]_vars

\* traitsToVector called on a profile
TraitsToVectorCall(r) ==
    /\ req[r].kind = "traitsToVector" /\ req[r].pc = "call"
    /\ req' = [req EXCEPT ![r].pc = "done",
                          ![r].result = traitsToVector(req[r].traits)]
    /\ UNCHANGED <<db, tokens, started>>

\* a call of traitsToVector on any profile
InitTraits ==
    /\ users = <<>> /\ nextUserId = 1 /\ tokens = <<>>
    /\ likes = EmptyBag
    /\ matches = {} /\ nextMatchId = 1
    /\ messages = {} /\ nextMessageId = 1
    /\ started = 0
    /\ \E traits \in TraitProfiles :
         req = [r \in Clients |->
                  IF r = OneClient
                  THEN [NewReq("traitsToVector", "call", 0, 0, 0)
                          EXCEPT !.traits = traits]
                  ELSE Idle]

NextTraits == TraitsToVectorCall(OneClient)

SpecTraits == InitTraits /\ [][NextTraits]_vars

\* the same requests sent by one client, one after the other, and
\* createMatchIfMutualLike called on its own between them
NextSeq ==
    \/ \E user \in DOMAIN tokens, to \in UserIds : LikeStart(OneClient, user, to)
    \/ \E user \in DOMAIN tokens, to \in UserIds : UnlikeStart(OneClient, user, to)
    \/ \E user \in DOMAIN tokens, to \in UserIds : MessageStart(OneClient, user, to)
    \/ \E user \in DOMAIN tokens : DeleteUserStart(OneClient, user)
    \/ \E a \in UserIds : \E b \in UserIds \ {a} : ResolveStart(OneClient, a, b)
    \/ LikeStep(OneClient)
    \/ UnlikeStep(OneClient)
    \/ MessageStep(OneClient)
    \/ DeleteUserDelete(OneClient)

SpecSeq == Init /\ [][NextSeq]_vars

\* concurrent requests none of which deletes a Like or a user
NextLikes ==
    \/ \E r \in Clients, user \in DOMAIN tokens, to \in UserIds : LikeStart(r, user, to)
    \/ \E r \in Clients, user \in DOMAIN tokens, to \in UserIds : MessageStart(r, user, to)
    \/ \E r \in Clients : LikeStep(r)
    \/ \E r \in Clients : MessageStep(r)

SpecLikes == Init /\ [][NextLikes]_vars

\* like, unlike and ranking requests of one client, one after the other
NextRank ==
    \/ \E user \in DOMAIN tokens, to \in UserIds : LikeStart(OneClient, user, to)
    \/ \E user \in DOMAIN tokens, to \in UserIds : UnlikeStart(OneClient, user, to)
    \/ \E user \in DOMAIN tokens, limit \in 0 .. MaxLimit :
          RankStart(OneClient, user, limit)
    \/ LikeStep(OneClient)
    \/ UnlikeStep(OneClient)
    \/ RankStep(OneClient)

SpecRank == InitRank /\ [][NextRank]_vars

----------------------------------------------------------------------------
(* Reciprocity: likes, matches and messages *)

\* C1: in every reachable state, at most one Match row exists for each
\* unordered pair of users, counting both stored orientations.
C1_AtMostOneMatchPerPair ==
    \A a \in UserIds, b \in UserIds : Cardinality(MatchRowsFor(a, b)) <= 1

NoLikeOrUnlikeInProgress ==
    \A r \in Clients : Busy(r) => req[r].kind \notin {"like", "unlike"}

\* C2: whenever no like or unlike request is in progress, every Match row is
\* backed by both directed Likes of its pair.
C2_MatchBackedByBothLikes ==
    NoLikeOrUnlikeInProgress =>
       \A m \in matches : /\ LikeExists(m.userAId, m.userBId)
                          /\ LikeExists(m.userBId, m.userAId)

\* the step in which the handler of client r replies
Replies(r) == Busy(r) /\ ~Busy(r)'

\* C3: a successful unlike (answered 200) issued while a Match of the pair
\* exists, which its findFirst therefore found, reports matchDeleted true,
\* and when it replies no Match row of the pair is left in either orientation.
C3_UnlikeCleanup ==
    [][\A r \in Clients :
         (Replies(r) /\ req[r].kind = "unlike" /\ req'[r].status = 200
            /\ req[r].match # NULL)
         => /\ req'[r].matchDeleted
            /\ MatchRowsFor(req[r].user, req[r].to)' = {}]_vars

MutualLike(a, b) == LikeExists(a, b) /\ LikeExists(b, a)

\* C4: with requests run one after the other, a pair with both directed
\* Likes has exactly one Match row, and a call of createMatchIfMutualLike on
\* that pair, in either argument order, leaves the Match rows unchanged and
\* returns the row of the pair.
C4_MutualLikeIdempotence ==
    /\ [](AllDone =>
            \A a \in UserIds, b \in UserIds :
               (a # b /\ MutualLike(a, b)) => Cardinality(MatchRowsFor(a, b)) = 1)
    /\ [][\A r \in Clients :
            (req[r].kind = "resolve" /\ Busy(r) /\ MutualLike(req[r].user, req[r].to))
            => /\ matches' = matches
               /\ (~Busy(r))' => /\ req'[r].match \in matches
                                 /\ MatchRowsFor(req[r].user, req[r].to) = {req'[r].match}]_vars

\* a call in the order opposite to the stored row returned that row
C4_Witness ==
    \E r \in Clients :
       /\ req[r].kind = "resolve" /\ ~Busy(r)
       /\ req[r].match \in matches
       /\ req[r].match.userAId = req[r].to
       /\ req[r].match.userBId = req[r].user

LikeCreated(r) == req[r].kind = "like" /\ ~Busy(r) /\ req[r].status = 201

\* C5: once like requests A->B and B->A have both been answered 201 (no Like
\* or user being deleted), a Match of the pair exists and at least one of the
\* two replies reports isMatch true.
C5_MutualLikesEndMatched ==
    \A r1 \in Clients, r2 \in Clients :
       (/\ r1 # r2
        /\ LikeCreated(r1) /\ LikeCreated(r2)
        /\ req[r1].user = req[r2].to /\ req[r1].to = req[r2].user)
       => /\ MatchRowsFor(req[r1].user, req[r1].to) # {}
          /\ (req[r1].isMatch \/ req[r2].isMatch)

C5_Witness ==
    \E r1 \in Clients, r2 \in Clients :
       /\ r1 # r2
       /\ LikeCreated(r1) /\ LikeCreated(r2)
       /\ req[r1].user = req[r2].to /\ req[r1].to = req[r2].user
       /\ req[r1].isMatch /\ ~req[r2].isMatch

\* C6: every Message references an existing Match whose two users are its
\* sender and receiver; a send that finds no Match of the pair is answered
\* 403 and creates nothing; and a Message is created only by a send that
\* found a Match row of its sender and receiver.
C6_MessagesNeedMatch ==
    /\ [](\A x \in messages :
            \E m \in matches : /\ m.id = x.matchId
                               /\ {m.userAId, m.userBId} = {x.senderId, x.receiverId})
    /\ [][\A r \in Clients :
            (/\ req[r].kind = "message" /\ req[r].pc = "findMatch"
             /\ req'[r] # req[r]
             /\ MatchRowsFor(req[r].user, req[r].to) = {})
            => req'[r].pc = "done" /\ req'[r].status = 403 /\ messages' = messages]_vars
    /\ [][\A x \in messages' \ messages :
            \E r \in Clients :
               /\ req[r].kind = "message" /\ req[r].pc = "createMessage"
               /\ req[r].match # NULL
               /\ x.matchId = req[r].match.id
               /\ {req[r].match.userAId, req[r].match.userBId}
                     = {x.senderId, x.receiverId}]_vars

\* a Message was created, and another send was rejected for want of a Match
C6_Witness ==
    /\ messages # {}
    /\ \E r \in Clients : req[r].kind = "message" /\ ~Busy(r) /\ req[r].status = 403

----------------------------------------------------------------------------
(* Ranking *)

ResultIds(result) == {result[i].id : i \in 1 .. Len(result)}

\* the step in which findCompatibleUsers returns to GET /potential
RankReturns(r) ==
    req[r].kind = "rank" /\ req[r].pc = "findCommunityUsers" /\ (~Busy(r))'

\* same community as the requester, not the requester, holding a profile
Rankable(r, id) ==
    /\ Exists(id)
    /\ users[id].communityId = req[r].communityId
    /\ id # req[r].user
    /\ users[id].traitVector # NULL

\* C7: the ranking never returns a user the requester currently likes, and a
\* rankable user the requester does not (or no longer) like is left out only
\* by the truncation to limit.
C7_LikedExcluded ==
    [][\A r \in Clients : RankReturns(r) =>
          /\ \A id \in ResultIds(req'[r].result) : ~LikeExists(req[r].user, id)
          /\ \A id \in UserIds :
                (Rankable(r, id) /\ ~LikeExists(req[r].user, id)
                   /\ id \notin ResultIds(req'[r].result))
                => Len(req'[r].result) = req[r].limit]_vars

\* The ranking of U0 returned V although a Match was once created (and only
\* the pair U0, V can have had it, V's Like being the only one left), which
\* only U0's unlike of V can have deleted.
C7_Witness ==
    \E r \in Clients :
       /\ req[r].kind = "rank" /\ ~Busy(r) /\ req[r].status = 200
       /\ nextMatchId = 2 /\ matches = {}
       /\ \E v \in ResultIds(req[r].result) : LikePairs = {<<v, req[r].user>>}

\* C8: every returned user is in the requester's community, is not the
\* requester and has a non-null profile; and every such user the requester
\* does not like is returned unless the result was truncated to limit.
C8_CandidateSet ==
    [][\A r \in Clients : RankReturns(r) =>
          /\ \A id \in ResultIds(req'[r].result) : Rankable(r, id)
          /\ (Len(req'[r].result) < req[r].limit) =>
                \A id \in UserIds :
                   (Rankable(r, id) /\ ~LikeExists(req[r].user, id))
                   => id \in ResultIds(req'[r].result)]_vars

\* a ranking returned every candidate while the community held a user
\* without profile and another community held a user with one
C8_Witness ==
    \E r \in Clients :
       /\ req[r].kind = "rank" /\ ~Busy(r) /\ req[r].status = 200
       /\ req[r].result # <<>>
       /\ Len(req[r].result) < req[r].limit
       /\ \E id \in UserIds \ {req[r].user} :
             users[id].communityId = req[r].communityId /\ users[id].traitVector = NULL
       /\ \E id \in UserIds :
             users[id].communityId # req[r].communityId /\ users[id].traitVector # NULL

LikesGivenBy(userId) == {l \in LikePairs : l[1] = userId}

\* C9: the ranking is a function of the users, their profiles and the Likes
\* the requester gave: computed on the Likes given by the requester alone,
\* without the Likes it received and without any Match row, it is the same.
C9_IndependentOfReceivedLikesAndMatches ==
    [][\A r \in Clients : RankReturns(r) =>
          req'[r].result \in
             {RankedMatches(users, LikesGivenBy(req[r].user), req[r].user,
                            req[r].traitVector, order, req[r].limit) :
                order \in Orders(CommunityUserIds(users, req[r].communityId,
                                                  req[r].user))}]_vars

\* a ranking returned a user who likes the requester, while a Match existed
C9_Witness ==
    \E r \in Clients :
       /\ req[r].kind = "rank" /\ ~Busy(r) /\ req[r].status = 200
       /\ matches # {}
       /\ \E id \in ResultIds(req[r].result) : LikeExists(id, req[r].user)

\* C10: when the requester's stored profile is null, findCompatibleUsers
\* throws and GET /potential replies with that error (500), not with matches.
C10_MissingProfileFails ==
    [][\A r \in Clients :
          (/\ req[r].kind = "rank" /\ req[r].pc = "findUser"
           /\ req'[r] # req[r]
           /\ Exists(req[r].user)
           /\ users[req[r].user].traitVector = NULL)
          => /\ req'[r].pc = "done"
             /\ req'[r].status = 500
             /\ req'[r].error = "User does not have trait vector data"
             /\ req'[r].result = <<>>]_vars

C10_Witness ==
    \E r \in Clients :
       /\ req[r].kind = "rank" /\ ~Busy(r) /\ req[r].status = 500
       /\ req[r].error = "User does not have trait vector data"
       /\ Exists(req[r].user) /\ users[req[r].user].traitVector = NULL

\* the Candidate Set of the ranking in flight (or just answered) on slot r
Candidates(r) ==
    {id \in UserIds : Rankable(r, id) /\ ~LikeExists(req[r].user, id)}

\* the score of candidate id against the requester of slot r
ScoreOf(r, id) ==
    calculateUserSimilarity(req[r].traitVector, users[id].traitVector)

\* C11: the ranking returns min(limit, |Candidate Set|) entries in order of
\* non-increasing score, and no candidate left out scores strictly higher than
\* a returned one.
C11_TopLimitPrefix ==
    [][\A r \in Clients : RankReturns(r) =>
          LET result == req'[r].result
          IN /\ Len(result) = Min(req[r].limit, Cardinality(Candidates(r)))
             /\ \A i, j \in 1 .. Len(result) :
                   i < j => ScoreDiff(result[i].similarityScore,
                                      result[j].similarityScore) >= 0
             /\ \A id \in Candidates(r) \ ResultIds(result) :
                   \A i \in 1 .. Len(result) :
                      ScoreDiff(ScoreOf(r, id), result[i].similarityScore) <= 0]_vars

\* a ranking was truncated to limit and left out a candidate scoring strictly
\* lower than the returned ones
C11_Witness ==
    \E r \in Clients :
       /\ req[r].kind = "rank" /\ ~Busy(r) /\ req[r].status = 200
       /\ Len(req[r].result) = req[r].limit
       /\ \E id \in Candidates(r) \ ResultIds(req[r].result) :
             \A i \in 1 .. Len(req[r].result) :
                ScoreDiff(ScoreOf(r, id), req[r].result[i].similarityScore) < 0

\* C12: for a fixed snapshot the ranking returns one sequence, whatever the
\* order in which the query returns the rows of the community.
C12_DeterministicRanking ==
    [][\A r \in Clients : RankReturns(r) =>
          \A order \in Orders(CommunityUserIds(users, req[r].communityId,
                                               req[r].user)) :
             req'[r].result = RankedMatches(users, LikePairs, req[r].user,
                                            req[r].traitVector, order,
                                            req[r].limit)]_vars

\* C13: a requester holding a profile gets no error, and an empty Candidate
\* Set is answered with an empty sequence (200).
C13_EmptyCandidateSet ==
    [][\A r \in Clients :
          /\ (/\ req[r].kind = "rank" /\ req[r].pc = "findUser"
              /\ req'[r] # req[r]
              /\ Exists(req[r].user)
              /\ users[req[r].user].traitVector # NULL)
             => req'[r].pc = "findCommunityUsers"
          /\ (RankReturns(r) /\ Candidates(r) = {})
             => /\ req'[r].result = <<>>
                /\ req'[r].status = 200
                /\ req'[r].error = ""]_vars

\* a ranking returned the empty sequence while the requester's community held
\* a user the requester likes and no unliked user holding a profile
C13_Witness ==
    \E r \in Clients :
       /\ req[r].kind = "rank" /\ ~Busy(r) /\ req[r].status = 200
       /\ req[r].limit >= 1
       /\ req[r].result = <<>>
       /\ users[req[r].user].traitVector # NULL
       /\ \E id \in UserIds : Rankable(r, id) /\ LikeExists(req[r].user, id)

\* C14: no step of a ranking request, answered 200, 400 or 500, changes a
\* User, Like, Match or Message row or a stored profile.
C14_RankingReadOnly ==
    [][\A r \in Clients :
          (req'[r].kind = "rank" /\ req'[r] # req[r]) => UNCHANGED db]_vars

\* a ranking was answered with matches while Likes and a Match were stored
C14_Witness ==
    \E r \in Clients :
       /\ req[r].kind = "rank" /\ ~Busy(r) /\ req[r].status = 200
       /\ req[r].result # <<>>
       /\ LikePairs # {} /\ matches # {}
       /\ \A id \in UserIds : users[id].traitVector \in SeedTraitOptions(id)

----------------------------------------------------------------------------
(* Preconditions of a like *)

\* the step in which a request arrives on slot r
Arrives(r) == ~Busy(r) /\ req'[r] # req[r]

\* C15: a like of oneself is answered 400 on arrival, with no table changed
\* and no further step of the handler; no Like row has fromUserId = toUserId
\* and no Match row has userAId = userBId.
C15_NoSelfRelation ==
    /\ [](/\ \A l \in LikePairs : l[1] # l[2]
          /\ \A m \in matches : m.userAId # m.userBId)
    /\ [][\A r \in Clients :
             (Arrives(r) /\ req'[r].kind = "like" /\ req'[r].user = req'[r].to)
             => /\ ~Busy(r)'
                /\ req'[r].status = 400
                /\ UNCHANGED db]_vars

\* a like of oneself was answered 400
C15_Witness ==
    \E r \in Clients :
       /\ req[r].kind = "like" /\ ~Busy(r)
       /\ req[r].user = req[r].to
       /\ req[r].status = 400

\* C16: a like of a user of another community is answered 403 with no table
\* changed and no further step of the handler; every Like row and every Match
\* row connects two users of one community.
C16_SameCommunity ==
    /\ [](/\ \A l \in LikePairs :
                /\ Exists(l[1]) /\ Exists(l[2])
                /\ users[l[1]].communityId = users[l[2]].communityId
          /\ \A m \in matches :
                /\ Exists(m.userAId) /\ Exists(m.userBId)
                /\ users[m.userAId].communityId = users[m.userBId].communityId)
    /\ [][\A r \in Clients :
             (/\ req[r].kind = "like" /\ req[r].pc = "findToUser"
              /\ req'[r] # req[r]
              /\ Exists(req[r].to)
              /\ users[req[r].to].communityId # tokens[req[r].user])
             => /\ ~Busy(r)'
                /\ req'[r].status = 403
                /\ UNCHANGED db]_vars

\* a like of a user of another community was answered 403 while Likes and a
\* Match were stored
C16_Witness ==
    \E r \in Clients :
       /\ req[r].kind = "like" /\ ~Busy(r) /\ req[r].status = 403
       /\ Exists(req[r].to)
       /\ users[req[r].to].communityId # tokens[req[r].user]
       /\ matches # {}

\* the handler of slot r looks up or inserts the Like of its pair
LooksAtLike(r) ==
    /\ req[r].kind = "like"
    /\ req[r].pc \in {"findExistingLike", "createLike"}
    /\ req'[r] # req[r]

\* C17: table likes never holds two rows of one ordered pair, also when two
\* identical like requests run concurrently; a like request that finds the
\* Like of its pair stored is answered with an error and changes neither the
\* Like nor the Match table.
C17_OneLikePerOrderedPair ==
    /\ [](\A l \in LikePairs : CopiesIn(l, likes) = 1)
    /\ [][\A r \in Clients :
             (LooksAtLike(r) /\ LikeExists(req[r].user, req[r].to))
             => /\ ~Busy(r)'
                /\ req'[r].status \in {400, 500}
                /\ UNCHANGED <<likes, matches, nextMatchId>>]_vars

\* two identical like requests ran concurrently: both passed the lookup, one
\* inserted the Like and the other's insert failed on the unique index
C17_Witness ==
    \E r, q \in Clients :
       /\ r # q
       /\ req[r].kind = "like" /\ req[q].kind = "like"
       /\ req[r].user = req[q].user /\ req[r].to = req[q].to
       /\ ~Busy(r) /\ req[r].status = 500
       /\ ~Busy(q) /\ req[q].status = 201
       /\ LikeExists(req[r].user, req[r].to)
       /\ matches = {} /\ nextMatchId = 1
       /\ started = 2

----------------------------------------------------------------------------
(* Similarity *)

\* cosineSimilarity returned on slot r
SimilarityReturned(r) == req[r].kind = "similarity" /\ ~Busy(r)

\* C20: cosineSimilarity(A, B) equals cosineSimilarity(B, A) for all vectors
\* A and B over the feature keys.
C20_Symmetric ==
    \A r \in Clients : SimilarityReturned(r) =>
       ScoreDiff(req[r].result,
                 cosineSimilarity(req[r].vectorB, req[r].vectorA)) = 0

----------------------------------------------------------------------------
(* Trait extraction *)

ExtractReturned(r) == req[r].kind = "extract" /\ ~Busy(r)

\* no biography, or an empty or blank one
NoBiography(bio) == bio = NULL \/ Trim(bio.text) = ""

\* the response holds no content, no JSON object, or one that does not parse
NoUsableContent(response, bio) ==
    \/ response.kind = "throws"
    \/ response.content = NULL
    \/ JsonMatch(response.content) = NULL
    \/ ParseJson(JsonMatch(response.content), bio).raised

\* C19: extractTraitsFromBio never raises, and it returns the default profile
\* for an empty or blank biography, a failed upstream call, a response without
\* content, content without a JSON object, and JSON that does not parse.
C19_ExtractionNeverRaises ==
    \A r \in Clients : ExtractReturned(r) =>
       /\ ~req[r].result.raised
       /\ (NoBiography(req[r].bio) \/ NoUsableContent(req[r].response, req[r].bio))
          => req[r].result.value = defaultTraits

\* the extractor returned the default profile for a biography whose response
\* held braces around something that is no JSON
C19_Witness ==
    \E r \in Clients :
       /\ ExtractReturned(r)
       /\ ~NoBiography(req[r].bio)
       /\ req[r].response.kind = "ok" /\ req[r].response.content # NULL
       /\ JsonMatch(req[r].response.content) # NULL
       /\ ParseJson(JsonMatch(req[r].response.content), req[r].bio).raised
       /\ req[r].result = Return(defaultTraits)

----------------------------------------------------------------------------
(* Stored profiles *)

\* the profiles extractTraitsFromBio may return for a biography
ProfilesOf(bio) == {result.value : result \in {x \in ExtractionsOf(bio) : ~x.raised}}

\* the stored profile of a row is null when the row has no biography, and
\* an extraction of the stored biography otherwise
ProfileMatchesBio(row) ==
    IF row.bio = NULL \/ row.bio = Bio("")
    THEN row.traitVector = NULL
    ELSE row.traitVector # NULL /\ row.traitVector \in ProfilesOf(row.bio)

\* C18: a stored profile is null exactly when the user has no biography (null
\* or empty), and every write that changes a stored biography stores, in the
\* same step, a profile extracted from the new biography, also when updates of
\* one user run concurrently.
C18_ProfileFollowsBio ==
    /\ [](\A id \in DOMAIN users : ProfileMatchesBio(users[id]))
    /\ [][\A id \in (DOMAIN users) \cap (DOMAIN users') :
             users'[id].bio # users[id].bio
             => \E r \in Clients :
                   /\ req[r].kind = "update" /\ req[r].user = id
                   /\ users'[id].bio = req[r].bio
                   /\ users'[id].traitVector = req[r].traitVector
                   /\ users'[id].traitVector \in ProfilesOf(users'[id].bio)]_vars

\* two updates of one user with different biographies ran concurrently (the
\* one that was written first had its profile extracted last) and the user holds
\* the profile read out of the biography written last
C18_Witness ==
    \E r, q \in Clients :
       /\ r # q
       /\ req[r].kind = "update" /\ req[q].kind = "update"
       /\ req[r].user = req[q].user
       /\ ~Busy(r) /\ req[r].status = 200
       /\ ~Busy(q) /\ req[q].status = 200
       /\ req[r].bio = Bio("b1") /\ req[q].bio = Bio("b2")
       /\ req[r].traitVector = ProfileA /\ req[q].traitVector = ProfileB
       /\ Exists(req[r].user)
       /\ users[req[r].user].bio = Bio("b2")
       /\ users[req[r].user].traitVector = ProfileB
       /\ \E id \in DOMAIN users : users[id].traitVector = NULL

\* calculateUserSimilarity returned on slot r
UserSimilarityReturned(r) == req[r].kind = "userSimilarity" /\ ~Busy(r)

\* C21: the score of any two profiles lies in [0, 1].
C21_ScoreInUnitInterval ==
    \A r \in Clients : UserSimilarityReturned(r) =>
       /\ ScoreDiff(req[r].result, 0) >= 0
       /\ ScoreDiff(req[r].result, One) <= 0

\* the vector is empty or holds zero weights only
ZeroNorm(vector) == \A i \in 1 .. Len(vector) : vector[i][2] = 0

\* C22: when a vector has zero norm, cosineSimilarity returns 0 (and the
\* division is not reached).
C22_ZeroNormScoresZero ==
    \A r \in Clients :
       (SimilarityReturned(r) /\ (ZeroNorm(req[r].vectorA) \/ ZeroNorm(req[r].vectorB)))
       => req[r].result = 0

\* cosineSimilarity returned 0 for the empty vector against a vector with
\* weights, and for a vector of zero weights
C22_Witness ==
    \E r \in Clients :
       /\ SimilarityReturned(r)
       /\ req[r].vectorA = EmptyVector
       /\ req[r].vectorB # EmptyVector /\ ~ZeroNorm(req[r].vectorB)
       /\ req[r].result = 0

\* C23: a vector of non-zero norm scores 1 against itself, and no two vectors
\* score more than that.
C23_SelfSimilarityIsOne ==
    \A r \in Clients : SimilarityReturned(r) =>
       /\ (req[r].vectorA = req[r].vectorB /\ ~ZeroNorm(req[r].vectorA))
          => req[r].result = One
       /\ ~ZeroNorm(req[r].vectorA)
          => ScoreDiff(req[r].result,
                       cosineSimilarity(req[r].vectorA, req[r].vectorA)) <= 0

----------------------------------------------------------------------------
(* Feature vectors *)

VectorReturned(r) == req[r].kind = "traitsToVector" /\ ~Busy(r)

Range(seq) == {seq[i] : i \in 1 .. Len(seq)}

\* the features of a profile, with the given separator after the category
FeaturesOf(traits, sep) ==
    {<<"personality" \o sep \o e[1], e[2]>> : e \in Range(traits.personalityTraits)}
    \cup {<<"interest" \o sep \o w, Scale>> : w \in Range(traits.interests)}
    \cup {<<"value" \o sep \o w, Scale>> : w \in Range(traits.values)}

\* C24, as stated: the vector holds the key "personality:" + name with the
\* intensity for each personality trait, "interest:" + keyword with weight
\* 1.0 for each interest, "value:" + keyword with weight 1.0 for each value,
\* and nothing else.
C24_KeysWithColon ==
    \A r \in Clients : VectorReturned(r) =>
       Range(req[r].result) = FeaturesOf(req[r].traits, ":")

\* C24, amended: the same with the keys "personality_" + name,
\* "interest_" + keyword and "value_" + keyword.
C24_KeysWithUnderscore ==
    \A r \in Clients : VectorReturned(r) =>
       Range(req[r].result) = FeaturesOf(req[r].traits, "_")

\* a vector returned for a profile with a personality trait, an interest and
\* a value
C24_Witness ==
    \E r \in Clients :
       /\ VectorReturned(r)
       /\ req[r].traits.personalityTraits # <<>>
       /\ req[r].traits.interests # <<>>
       /\ req[r].traits.values # <<>>
       /\ Len(req[r].result) = 3

\* the entries of the vector written for word x in a category
EntriesFor(vector, category, x) ==
    {i \in 1 .. Len(vector) :
       \E sep \in {"_", ":", ""} : vector[i][1] = category \o sep \o x}

\* C25: for a word x, the keys written for x as a personality trait, as an
\* interest and as a value are different keys, each holding the weight of its
\* own category; a keyword repeated within a category gives one feature of
\* weight 1.0.
C25_NamespacedKeys ==
    \A r \in Clients : VectorReturned(r) =>
       LET traits == req[r].traits
           vector == req[r].result
       IN \A x \in Words :
            /\ \A e \in Range(traits.personalityTraits) :
                 e[1] = x =>
                   \E i \in 1 .. Len(vector) :
                      /\ EntriesFor(vector, "personality", x) = {i}
                      /\ vector[i][2] = e[2]
            /\ x \in Range(traits.interests) =>
                   \E i \in 1 .. Len(vector) :
                      /\ EntriesFor(vector, "interest", x) = {i}
                      /\ vector[i][2] = Scale
            /\ x \in Range(traits.values) =>
                   \E i \in 1 .. Len(vector) :
                      /\ EntriesFor(vector, "value", x) = {i}
                      /\ vector[i][2] = Scale
            /\ \A i, j \in 1 .. Len(vector) :
                 vector[i][1] = vector[j][1] => i = j

\* the same word as a personality trait of intensity below 1.0, as an interest
\* given twice and as a value
C25_Witness ==
    \E r \in Clients : \E x \in Words :
       /\ VectorReturned(r)
       /\ req[r].traits.personalityTraits = << <<x, 1>> >>
       /\ req[r].traits.interests = <<x, x>>
       /\ req[r].traits.values = <<x>>
       /\ Len(req[r].result) = 3

----------------------------------------------------------------------------
(* The structure the prompt asks for *)

\* the content holds a JSON object with the top-level members
\* personalityTraits, interests and values, and nothing else in it
RequestedStructure(content) ==
    /\ content # NULL
    /\ JsonMatch(content) # NULL
    /\ LET object == JsonMatch(content).pieces
       IN object = <<"{", "fields", "}">>

\* C27: when the content of the response holds a JSON object of the structure
\* the prompt asks for, extractTraitsFromBio returns the profile it carries,
\* not the default profile.
C27_RequestedStructureIsRead ==
    \A r \in Clients :
       (/\ ExtractReturned(r)
        /\ ~NoBiography(req[r].bio)
        /\ req[r].response.kind = "ok"
        /\ RequestedStructure(req[r].response.content))
       => /\ req[r].result = Return(TraitsIn(req[r].bio.text))
          /\ req[r].result.value # defaultTraits

----------------------------------------------------------------------------
(* Deleting a user *)

\* the rows of the three tables that reference user id
RowsOf(id, likePairs, matchRows, messageRows) ==
    [likes |-> {l \in likePairs : l[1] = id \/ l[2] = id},
     matches |-> {m \in matchRows : m.userAId = id \/ m.userBId = id},
     messages |-> {x \in messageRows :
                     \/ x.senderId = id \/ x.receiverId = id
                     \/ \E m \in matchRows :
                          m.id = x.matchId /\ (m.userAId = id \/ m.userBId = id)}]

NoRows == [likes |-> {}, matches |-> {}, messages |-> {}]

\* C26: deleting a user removes the Likes it gave or received, the Matches it
\* is part of and the Messages of those Matches; no Like, Match or Message
\* references a user that does not exist (or a Match that does not exist),
\* and a ranking never contains a user that does not exist.
C26_DeleteCascades ==
    /\ [](/\ \A l \in LikePairs : Exists(l[1]) /\ Exists(l[2])
          /\ \A m \in matches : Exists(m.userAId) /\ Exists(m.userBId)
          /\ \A x \in messages : /\ Exists(x.senderId) /\ Exists(x.receiverId)
                                 /\ \E m \in matches : m.id = x.matchId)
    /\ [][\A id \in (DOMAIN users) \ (DOMAIN users') :
             RowsOf(id, BagToSet(likes'), matches', messages') = NoRows]_vars
    /\ [][\A r \in Clients : RankReturns(r) =>
             \A id \in ResultIds(req'[r].result) : Exists(id)]_vars

\* user 2, who had a Like in each direction, a Match and a Message with
\* user 1, was deleted; nothing of it is left, and a ranking of user 1
\* returned no one
C26_Witness ==
    \E r \in Clients :
       /\ ~Exists(2)
       /\ nextMatchId = 2 /\ nextMessageId = 2
       /\ LikePairs = {} /\ matches = {} /\ messages = {}
       /\ req[r].kind = "rank" /\ ~Busy(r) /\ req[r].status = 200
       /\ req[r].user = 1 /\ req[r].result = <<>>

----------------------------------------------------------------------------
(* Unlike *)

\* slot r takes a step
Steps(r) == req'[r] # req[r]

\* C28: an unlike that finds no Like from the requester to the other user is
\* answered 404 and deletes nothing; a Match is deleted only by a deleted user's
\* cascade or by an unlike of that pair that has passed the deletion of the
\* requester's own Like.
C28_UnlikeWithoutLike ==
    /\ [][\A r \in Clients :
             (/\ req[r].kind = "unlike" /\ req[r].pc = "deleteLike"
              /\ Steps(r)
              /\ ~LikeExists(req[r].user, req[r].to))
             => /\ req'[r].pc = "done" /\ req'[r].status = 404
                /\ ~req'[r].matchDeleted
                /\ likes' = likes /\ matches' = matches /\ messages' = messages]_vars
    /\ [][\A m \in matches \ matches' :
             \/ ~Exists(m.userAId)' \/ ~Exists(m.userBId)'
             \/ \E r \in Clients :
                  /\ req[r].kind = "unlike" /\ req[r].pc = "deleteMatch" /\ Steps(r)
                  /\ {req[r].user, req[r].to} = {m.userAId, m.userBId}]_vars

\* an unlike deleted the Like and the Match of a pair, and the same unlike
\* sent again was answered 404, the Like of the other user still being there
C28_Witness ==
    \E r, q \in Clients :
       /\ r # q
       /\ req[r].kind = "unlike" /\ ~Busy(r)
       /\ req[r].status = 200 /\ req[r].matchDeleted
       /\ req[q].kind = "unlike" /\ ~Busy(q)
       /\ req[q].status = 404
       /\ req[q].user = req[r].user /\ req[q].to = req[r].to
       /\ LikePairs = {<<req[r].to, req[r].user>>}
       /\ matches = {}

\* the Likes and Matches of the pairs other than {a, b}, and the Like b -> a
OtherRows(a, b, likeBag, matchRows) ==
    [likes |-> [l \in BagToSet(likeBag) \ {<<a, b>>} |-> likeBag[l]],
     matches |-> {m \in matchRows : {m.userAId, m.userBId} # {a, b}}]

\* the steps of an unlike A -> B touch nothing but the Like A -> B and the
\* Match rows of {A, B}
C29_UnlikeDeletesOnlyItsRows ==
    [][\A r \in Clients :
         (req[r].kind = "unlike" /\ Steps(r))
         => OtherRows(req[r].user, req[r].to, likes', matches')
              = OtherRows(req[r].user, req[r].to, likes, matches)]_vars

\* when an unlike A -> B replies 200, the pair has no Match row
C29_UnlikeEndsUnmatched ==
    [][\A r \in Clients :
         (req[r].kind = "unlike" /\ Replies(r) /\ req'[r].status = 200)
         => MatchRowsFor(req[r].user, req[r].to)' = {}]_vars

\* when a like A -> B replies 201, the Like B -> A is there and no other
\* request is in progress, the pair has a Match row
C29_RelikeMatches ==
    [][\A r \in Clients :
         (/\ req[r].kind = "like" /\ Replies(r) /\ req'[r].status = 201
          /\ AllDone'
          /\ MutualLike(req[r].user, req[r].to)')
         => MatchRowsFor(req[r].user, req[r].to)' # {}]_vars

\* C29: a successful unlike A -> B deletes the Like A -> B and the Match of
\* {A, B} and nothing else (the Like B -> A and the rows of the other pairs
\* stay), it leaves the pair without a Match, and a later like A -> B, the Like
\* B -> A being there, gives the pair a Match again.
C29_UnlikeThenRelike ==
    /\ C29_UnlikeDeletesOnlyItsRows
    /\ C29_UnlikeEndsUnmatched
    /\ C29_RelikeMatches

----------------------------------------------------------------------------
(* The reply of POST /like *)

\* a like A -> B that finds no Like B -> A replies 201 with isMatch false and
\* match null, and creates no Match
C30_OneSidedLike ==
    [][\A r \in Clients :
         (/\ req[r].kind = "like" /\ req[r].pc = "checkBLikesA" /\ Steps(r)
          /\ ~LikeExists(req[r].to, req[r].user))
         => /\ req'[r].pc = "done" /\ req'[r].status = 201
            /\ ~req'[r].isMatch /\ req'[r].match = NULL
            /\ matches' = matches]_vars

\* when a like replies 201, isMatch is true exactly if the pair has a Match
\* row, and exactly if the reply carries a match
C30_IsMatchReportsMatch ==
    [][\A r \in Clients :
         (req[r].kind = "like" /\ Replies(r) /\ req'[r].status = 201)
         => /\ req'[r].isMatch <=> (MatchRowsFor(req[r].user, req[r].to)' # {})
            /\ req'[r].isMatch <=> (req'[r].match # NULL)]_vars

\* C30: a like A -> B issued when the Like B -> A does not exist creates no
\* Match and replies with isMatch false and match null; and every like reply
\* reports isMatch true exactly when a Match of the pair exists as the handler
\* finishes.
C30_LikeReply ==
    /\ C30_OneSidedLike
    /\ C30_IsMatchReportsMatch

====
